---------------------------- MODULE Spec2Model ----------------------------
(***************************************************************************)
(* A model of the NFO -> VSMETA converters of the repository:              *)
(*   src/nfo-to-vsmeta1.1.py      (process_files / create_vsmeta, varint)  *)
(*   src/nfo-to-vsmetaCS.py       (SynoMetaConverter, mtime staleness)     *)
(*   src/nfo-to-vsmetaCS1.1.py    (DSM7Converter)                          *)
(*   src/vsmeta_synology_1.10.py  (process_all / process_file, threads)    *)
(*                                                                         *)
(* Text is a sequence of Unicode code points, a byte string a sequence of  *)
(* numbers 0..255.  A call that may raise returns Ok(v) or Err(kind),      *)
(* kind the name of the Python exception.                                  *)
(***************************************************************************)
EXTENDS Integers, Sequences, FiniteSets, TLC

VARIABLES
    c_op,      \* codec: the function under call, "write_int" | "write_string"
    c_arg,     \* codec: its argument (an int, or a text)
    c_pre,     \* codec: the bytearray before the call
    c_ba,      \* codec: the bytearray after the call
    c_pc,      \* codec: "call" | "done"
    n_doc,     \* one conversion: the NFO document
    n_tool,    \* one conversion: the converter that ran, "none" before
    n_env,     \* one conversion: the image files beside the NFO and the clock
    n_meta,    \* one conversion: what the parse step returned
    n_result,  \* one conversion: how the handler ended
    n_file,    \* one conversion: the file at the output path
    n_pc,      \* one conversion: "ready" | "done"
    s_tool,    \* scans: the script, "syno" (SynoMetaConverter) | "v11" (process_files)
    s_delete,  \* scans: config['delete_vsmeta'] of process_files
    s_nfo,     \* scans: base name -> the .nfo file [exists, doc, mtime]
    s_out,     \* scans: base name -> the .vsmeta file [exists, data, mtime, src,
               \*        complete]
    s_clock,   \* scans: the clock the file system stamps files with
    s_cache,   \* scans: the lines of .synoconvert_cache
    s_queue,   \* scans: the files the running scan has still to visit
    s_run,     \* scans: the number of scans started
    s_log,     \* scans: what the scans reported, one entry per file visited
    s_changes, \* scans: the number of changes users made to the tree
    s_call,    \* scans: the locals of the conversion that has opened its output
    s_pc,      \* scans: "idle" | "scan" | "write" (the output is open) |
               \*        "aborted" (the script ended with a traceback)
    p_cfg,     \* process_all: the configuration
    p_files,   \* process_all: the files of the scanned directory
    p_tasks,   \* process_all: video name -> position of its process_file call
    p_log,     \* process_all: Logger.log of the running run
    p_saved,   \* process_all: the log files Logger.save wrote, one per run, each
               \*              as the bag of its entries (entry -> number of lines)
    p_run,     \* process_all: the number of runs started
    p_writes,  \* process_all: the writes of .vsmeta files so far [run, name, over]
    p_faulted, \* process_all: the file system failed a write of the tree
    p_pc       \* process_all: "idle" | "run"

codecVars == <<c_op, c_arg, c_pre, c_ba, c_pc>>
nfoVars == <<n_doc, n_tool, n_env, n_meta, n_result, n_file, n_pc>>
scanVars == <<s_tool, s_delete, s_nfo, s_out, s_clock, s_cache, s_queue, s_run, s_log,
              s_changes, s_call, s_pc>>
procVars == <<p_cfg, p_files, p_tasks, p_log, p_saved, p_run, p_writes, p_faulted, p_pc>>

-----------------------------------------------------------------------------
(* Bounds of the model. *)

\* write_int is called with 0 .. MaxVarint (16384 = 128 * 128 lies inside).
MaxVarint == 16500
\* write_string is called with texts of 0 .. MaxStrLen characters.
MaxStrLen == 130
\* An NFO document has at most MaxRepeat elements of the repeated kinds
\* (genre, director, studio, actor) in all.
MaxRepeat == 2
\* The pipeline is run at most MaxRuns times over a tree.
MaxRuns == 2
\* The file system's clock takes the values 0 .. MaxClock.
MaxClock == 1
\* Users change the tree (edit an .nfo, delete a .vsmeta) at most
\* MaxChanges times.
MaxChanges == 1
\* A scanned directory holds 1 .. MaxFiles videos at the start.
MaxFiles == 2

-----------------------------------------------------------------------------
(* Generic helpers. *)

Ok(v) == [ok |-> TRUE, v |-> v]
Err(kind) == [ok |-> FALSE, err |-> kind]

RECURSIVE Flatten(_)
Flatten(ss) ==
    IF ss = <<>> THEN <<>>
    ELSE IF Len(ss) = 1 THEN ss[1]
    ELSE LET h == Len(ss) \div 2
         IN  Flatten(SubSeq(ss, 1, h)) \o Flatten(SubSeq(ss, h + 1, Len(ss)))

Repeat(x, n) == [i \in 1..n |-> x]

IsPrefix(p, s) == Len(p) <= Len(s) /\ SubSeq(s, 1, Len(p)) = p

-----------------------------------------------------------------------------
(* Python values and built-ins the converters use.                         *)
(* A float is held exactly, in halves: PyFloat(9) is 4.5.  The texts the   *)
(* model feeds to float() carry no fraction other than .0 or .5.           *)

PyNone == [t |-> "none"]
PyStr(s) == [t |-> "str", v |-> s]
PyInt(n) == [t |-> "int", v |-> n]
PyFloat(h) == [t |-> "float", v |-> h]

\* The value of a number in halves, whatever its type.
Halves(x) == IF x.t = "int" THEN 2 * x.v ELSE x.v

IsSpace(c) == c \in {32, 9, 10, 13}
IsDigit(c) == c \in 48..57

RECURSIVE lstrip(_)
lstrip(s) == IF s # <<>> /\ IsSpace(Head(s)) THEN lstrip(Tail(s)) ELSE s

RECURSIVE rstrip(_)
rstrip(s) ==
    IF s # <<>> /\ IsSpace(s[Len(s)]) THEN rstrip(SubSeq(s, 1, Len(s) - 1)) ELSE s

\* str.strip()
strip(s) == rstrip(lstrip(s))

AllDigits(s) == \A i \in 1..Len(s) : IsDigit(s[i])

RECURSIVE DigitsValue(_)
DigitsValue(s) ==
    IF s = <<>> THEN 0 ELSE 10 * DigitsValue(SubSeq(s, 1, Len(s) - 1)) + (s[Len(s)] - 48)

HasSign(s) == s # <<>> /\ Head(s) \in {43, 45}
Unsigned(s) == IF HasSign(s) THEN Tail(s) ELSE s
SignOf(s) == IF s # <<>> /\ Head(s) = 45 THEN -1 ELSE 1

\* int(text): optional blanks, an optional sign, one or more digits.
py_int(text) ==
    LET s == strip(text)
        d == Unsigned(s)
    IN  IF d # <<>> /\ AllDigits(d) THEN Ok(PyInt(SignOf(s) * DigitsValue(d)))
        ELSE Err("ValueError")

\* The place of the first '.' in s, 0 when there is none.
DotAt(s) ==
    IF \E i \in 1..Len(s) : s[i] = 46
    THEN CHOOSE i \in 1..Len(s) : s[i] = 46 /\ \A j \in 1..(i - 1) : s[j] # 46
    ELSE 0

\* float(text): optional blanks, an optional sign, digits with an optional
\* fraction.  The result is in halves (fraction .5 is one half).
py_float(text) ==
    LET s == strip(text)
        d == Unsigned(s)
        k == DotAt(d)
        ip == IF k = 0 THEN d ELSE SubSeq(d, 1, k - 1)
        fp == IF k = 0 THEN <<>> ELSE SubSeq(d, k + 1, Len(d))
        half == IF fp # <<>> /\ fp[1] = 53 THEN 1 ELSE 0
    IN  IF (ip # <<>> \/ fp # <<>>) /\ AllDigits(ip) /\ AllDigits(fp)
        THEN Ok(PyFloat(SignOf(s) * (2 * DigitsValue(ip) + half)))
        ELSE Err("ValueError")

\* min(a, b) of two numbers: b when b < a, else a (the first of two equals),
\* the result keeping the type of the argument returned.
py_min(a, b) == IF Halves(b) < Halves(a) THEN b ELSE a

\* The doubling the scale heuristic would do: only values up to 5.
DoubleUpToFive(x) == PyFloat(IF Halves(x) <= 10 THEN 2 * Halves(x) ELSE Halves(x))

\* float * 2
times2(x) == PyFloat(2 * Halves(x))

\* str.encode('utf-16le') (the model's texts stay in the BMP).
encode_utf16le(s) == Flatten([i \in 1..Len(s) |-> <<s[i] % 256, s[i] \div 256>>])

\* struct.pack('<I', n) of a non-negative Python int below 2^32.
le32(n) == <<n % 256, (n \div 256) % 256, (n \div 65536) % 256, (n \div 16777216) % 256>>

\* struct.pack('<I', x): struct.error for a float and for a negative int.
\* (No int of the model reaches 2^32.)
pack_I(x) ==
    IF x.t = "int" /\ x.v >= 0 THEN Ok(le32(x.v)) ELSE Err("struct.error")

RECURSIVE Log2Floor(_)
Log2Floor(m) == IF m < 2 THEN 0 ELSE 1 + Log2Floor(m \div 2)

RECURSIVE Pow2(_)
Pow2(k) == IF k = 0 THEN 1 ELSE 2 * Pow2(k - 1)

\* struct.pack('<f', x): the IEEE-754 single of an int or a float, little-endian.
\* With m = |x| in halves and k = floor(log2 m): exponent k - 1, fraction
\* (m - 2^k) * 2^(23 - k).
pack_f(x) ==
    LET h == Halves(x)
        m == IF h < 0 THEN -h ELSE h
        k == Log2Floor(m)
        biased == (k - 1) + 127
        frac == (m - Pow2(k)) * Pow2(23 - k)
        sign == IF h < 0 THEN 128 ELSE 0
    IN  IF m = 0 THEN <<0, 0, 0, 0>>
        ELSE << frac % 256,
                (frac \div 256) % 256,
                ((biased % 2) * 128) + (frac \div 65536),
                sign + (biased \div 2) >>

-----------------------------------------------------------------------------
(* Byte-level writers of src/nfo-to-vsmeta1.1.py. *)

\* str.encode('utf-8') of one code point (the model's texts stay in the BMP).
utf8_char(c) ==
    IF c < 128 THEN <<c>>
    ELSE IF c < 2048 THEN <<192 + (c \div 64), 128 + (c % 64)>>
    ELSE <<224 + (c \div 4096), 128 + ((c \div 64) % 64), 128 + (c % 64)>>

encode_utf8(string) == Flatten([i \in 1..Len(string) |-> utf8_char(string[i])])

\* write_byte: ba.extend(bytes([int(str(t))])); bytes([t]) takes 0 <= t <= 255.
write_byte(ba, t) == Append(ba, t)

\* write_int: while length > 128: emit length % 128 + 128, length //= 128;
\* then emit what is left.
RECURSIVE write_int(_, _)
write_int(ba, length) ==
    IF length > 128
    THEN write_int(write_byte(ba, (length % 128) + 128), length \div 128)
    ELSE write_byte(ba, length)

\* write_string: the varint of the UTF-8 length, then the UTF-8 bytes.
write_string(ba, string) ==
    LET byte == encode_utf8(string)
    IN  write_int(ba, Len(byte)) \o byte

-----------------------------------------------------------------------------
(* NFO documents.  A document is well-formed or not; a well-formed one is  *)
(* the sequence of the root's child elements in document order.  An        *)
(* element has a tag, a text (<<>> when it has none) and, for an actor,    *)
(* the texts of its <name> children.                                       *)

Elem(tag, text) == [tag |-> tag, text |-> text, names |-> <<>>]
ActorElem(names) == [tag |-> "actor", text |-> <<>>, names |-> names]
\* The children an element exposes to find/findtext: an actor's <name>s.
SubElems(e) == [i \in 1..Len(e.names) |-> Elem("name", e.names[i])]

\* Element.findall(tag)
findall(children, tag) == SelectSeq(children, LAMBDA e : e.tag = tag)

\* Element.findtext(tag, default): the first match's text ('' when it has
\* none), default when nothing matches.
findtext(children, tag, default) ==
    LET m == findall(children, tag)
    IN  IF m = <<>> THEN default ELSE m[1].text

-----------------------------------------------------------------------------
(* SynoMetaConverter of src/nfo-to-vsmetaCS.py. *)

VSMETA_HEADER == <<86, 83, 77, 1, 0, 0, 0>>

\* FIELD_TAGS, in the dict's insertion order.
FieldOrder ==
    << "title", "originaltitle", "plot", "year", "rating", "actor",
       "director", "genre", "mpaa", "studio", "runtime" >>

FIELD_TAGS ==
    [ title |-> 1, originaltitle |-> 2, plot |-> 3, year |-> 4, rating |-> 5,
      actor |-> 6, director |-> 7, genre |-> 8, mpaa |-> 9, studio |-> 12,
      runtime |-> 13 ]

\* The "basic fields" loop: root.find(tag), kept stripped when it has text.
SynoBasic(children, tag) ==
    LET m == findall(children, tag)
    IN  IF m # <<>> /\ m[1].text # <<>> THEN PyStr(strip(m[1].text)) ELSE PyNone

\* [a.findtext('name', '').strip() for a in root.findall('actor') if a.findtext('name')]
SynoActors(children) ==
    LET named == SelectSeq(findall(children, "actor"),
                           LAMBDA a : findtext(SubElems(a), "name", <<>>) # <<>>)
    IN  [i \in 1..Len(named) |-> strip(findtext(SubElems(named[i]), "name", <<>>))]

\* [s.text.strip() for s in root.findall('studio') if s.text]
SynoStudios(children) ==
    LET withText == SelectSeq(findall(children, "studio"), LAMBDA e : e.text # <<>>)
    IN  [i \in 1..Len(withText) |-> strip(withText[i].text)]

\* float(meta.get('rating', 0)) / int(meta.get('year', 0)): the key is always
\* in meta (None when the element is absent), so the default 0 is never used.
SynoFloat(value) == IF value.t = "none" THEN Err("TypeError") ELSE py_float(value.v)
SynoInt(value) == IF value.t = "none" THEN Err("TypeError") ELSE py_int(value.v)

\* min(float(meta.get('rating', 0)) * 2, 10)
SynoRating(value) ==
    LET f == SynoFloat(value)
    IN  IF f.ok THEN Ok(py_min(times2(f.v), PyInt(10))) ELSE f

\* The end of _parse_nfo, the three numbers converted: the first exception
\* raised (rating, then year, then runtime), or the meta dict.
SynoMeta(ch, rating, year, runtime) ==
    IF ~rating.ok THEN rating
    ELSE IF ~year.ok THEN year
    ELSE IF ~runtime.ok THEN runtime
    ELSE Ok([ title |-> SynoBasic(ch, "title"),
              originaltitle |-> SynoBasic(ch, "originaltitle"),
              plot |-> SynoBasic(ch, "plot"),
              year |-> year.v,
              rating |-> rating.v,
              actor |-> PyNone,
              director |-> SynoBasic(ch, "director"),
              genre |-> SynoBasic(ch, "genre"),
              mpaa |-> SynoBasic(ch, "mpaa"),
              studio |-> SynoStudios(ch),
              runtime |-> runtime.v,
              actors |-> SynoActors(ch) ])

\* _parse_nfo: Ok(meta) or the exception raised.
SynoParseNfo(doc) ==
    IF ~doc.wellformed THEN Err("ParseError")
    ELSE SynoMeta(doc.root,
                  SynoRating(SynoBasic(doc.root, "rating")),
                  SynoInt(SynoBasic(doc.root, "year")),
                  SynoInt(SynoBasic(doc.root, "runtime")))

\* struct.pack('<II', tag, len(encoded)) + encoded
SynoTextField(tag, text) ==
    LET encoded == encode_utf16le(text)
    IN  le32(tag) \o le32(Len(encoded)) \o encoded

\* struct.pack('<III', tag, 4, value)
SynoNumberField(tag, value) ==
    LET packed == pack_I(value)
    IN  IF packed.ok THEN Ok(le32(tag) \o le32(4) \o packed.v) ELSE packed

\* One pass of the "standard fields" loop.
SynoStandardField(meta, field) ==
    IF field \in {"actor", "studio"} THEN Ok(<<>>)
    ELSE LET value == meta[field]
         IN  IF value.t = "none" THEN Ok(<<>>)
             ELSE IF value.t = "str" THEN Ok(SynoTextField(FIELD_TAGS[field], value.v))
             ELSE SynoNumberField(FIELD_TAGS[field], value)

SynoListFields(tag, items) ==
    Flatten([i \in 1..Len(items) |-> SynoTextField(tag, items[i])])

SynoEndMarker == le32(255)

\* The buffer of _generate_vsmeta, std the results of the passes of the
\* "standard fields" loop: the exception raised, or the bytes.
SynoBuffer(std, meta) ==
    IF \E i \in 1..Len(std) : ~std[i].ok THEN Err("struct.error")
    ELSE Ok( VSMETA_HEADER
               \o Flatten([i \in 1..Len(std) |-> std[i].v])
               \o SynoListFields(FIELD_TAGS["actor"], meta["actors"])
               \o SynoListFields(FIELD_TAGS["studio"], meta["studio"])
               \o SynoEndMarker )

\* _generate_vsmeta: Ok(bytes) or the exception raised.
SynoGenerateVsmeta(meta) ==
    SynoBuffer([i \in 1..Len(FieldOrder) |-> SynoStandardField(meta, FieldOrder[i])], meta)

-----------------------------------------------------------------------------
(* DSM7Converter of src/nfo-to-vsmetaCS1.1.py. *)

\* The meta dict of parse_nfo, year and rating converted: the first
\* exception raised, or the dict.
Dsm7Meta(ch, year, f, poster, backdrop) ==
    IF ~year.ok THEN year
    ELSE IF ~f.ok THEN f
    ELSE Ok([ title |-> strip(findtext(ch, "title", <<>>)),
              original_title |-> strip(findtext(ch, "originaltitle", <<>>)),
              description |-> strip(findtext(ch, "plot", <<>>)),
              year |-> year.v,
              rating |-> py_min(PyInt(10), times2(f.v)),
              poster |-> poster,
              backdrop |-> backdrop ])

\* parse_nfo: Ok(meta) or the exception raised.  poster and backdrop are
\* what find_media_file found beside the NFO (TRUE: a path, FALSE: None).
Dsm7ParseNfo(doc, poster, backdrop) ==
    IF ~doc.wellformed THEN Err("ParseError")
    ELSE Dsm7Meta(doc.root,
                  py_int(findtext(doc.root, "year", <<48>>)),
                  py_float(findtext(doc.root, "rating", <<48>>)),
                  poster, backdrop)

\* self.FIELD_MAP[field]: FIELD_MAP is a module-level name bound after the
\* class body, not an attribute of DSM7Converter, so the lookup raises.
Dsm7SelfFieldMap(field) == Err("AttributeError")

\* One pass of the text-field loop.
Dsm7TextField(meta, field) ==
    IF meta[field] = <<>> THEN Ok(<<>>)
    ELSE LET data == encode_utf16le(meta[field])
             tag == Dsm7SelfFieldMap(field)
         IN  IF tag.ok THEN Ok(le32(tag.v) \o le32(Len(data)) \o data) ELSE tag

\* The buffer of generate_vsmeta, its parts packed: the first exception
\* raised, or the bytes.
Dsm7Buffer(t1, t2, t3, year, rating) ==
    IF ~t1.ok THEN t1
    ELSE IF ~t2.ok THEN t2
    ELSE IF ~t3.ok THEN t3
    ELSE IF ~year.ok THEN year
    ELSE Ok( VSMETA_HEADER \o t1.v \o t2.v \o t3.v
               \o le32(4) \o le32(4) \o year.v
               \o le32(5) \o le32(4) \o rating )

\* generate_vsmeta: Ok(bytes) or the exception raised.
Dsm7GenerateVsmeta(meta) ==
    Dsm7Buffer(Dsm7TextField(meta, "title"),
               Dsm7TextField(meta, "original_title"),
               Dsm7TextField(meta, "description"),
               pack_I(meta.year),
               pack_f(meta.rating))

-----------------------------------------------------------------------------
(* create_vsmeta of src/nfo-to-vsmeta1.1.py (xml.dom.minidom).             *)

NoFile == [exists |-> FALSE, data |-> <<>>]
File(data) == [exists |-> TRUE, data |-> data]

\* doc.getElementsByTagName(tag): every element of the document with the
\* tag, nested ones included, in document order.
getElementsByTagName(children, tag) ==
    findall(Flatten([i \in 1..Len(children) |-> <<children[i]>> \o SubElems(children[i])]), tag)

\* get_node: the first match's first child's value (its text), default when
\* nothing matches or the match has no child node.
get_node(children, tag, default) ==
    LET nd == getElementsByTagName(children, tag)
    IN  IF Len(nd) > 0 /\ nd[1].text # <<>> THEN nd[1].text ELSE default

\* get_node_list with child_tag = '': the text of every match that has one.
get_node_list(children, tag) ==
    LET nds == SelectSeq(getElementsByTagName(children, tag), LAMBDA e : e.text # <<>>)
    IN  [i \in 1..Len(nds) |-> nds[i].text]

\* get_node_list with a child_tag: get_node(nd, child_tag, '') of every match.
get_node_list_child(children, tag, child_tag) ==
    LET nds == getElementsByTagName(children, tag)
    IN  [i \in 1..Len(nds) |-> get_node(SubElems(nds[i]), child_tag, <<>>)]

NoTitle == <<26080, 26631, 39064>>               \* '无标题'
Text1900 == <<49, 57, 48, 48>>                   \* '1900'
Text19000101 == <<49, 57, 48, 48, 45, 48, 49, 45, 48, 49>>   \* '1900-01-01'

extract_metadata(children) ==
    [ title |-> get_node(children, "title", NoTitle),
      sorttitle |-> get_node(children, "sorttitle", NoTitle),
      tagline |-> get_node(children, "tagline", NoTitle),
      plot |-> get_node(children, "plot", <<>>),
      year |-> get_node(children, "year", Text1900),
      level |-> get_node(children, "mpaa", <<71>>),
      date |-> get_node(children, "premiered", Text19000101),
      rate |-> get_node(children, "rating", <<48>>),
      genre |-> get_node_list(children, "genre"),
      actors |-> get_node_list_child(children, "actor", "name"),
      directors |-> get_node_list(children, "director"),
      writers |-> get_node_list(children, "writer") ]

\* The base64 alphabet: A-Z a-z 0-9 + /
B64Char(i) ==
    IF i < 26 THEN 65 + i
    ELSE IF i < 52 THEN 97 + (i - 26)
    ELSE IF i < 62 THEN 48 + (i - 52)
    ELSE IF i = 62 THEN 43 ELSE 47

RECURSIVE b64encode(_)
b64encode(bs) ==
    IF bs = <<>> THEN <<>>
    ELSE IF Len(bs) = 1
    THEN << B64Char(bs[1] \div 4), B64Char((bs[1] % 4) * 16), 61, 61 >>
    ELSE IF Len(bs) = 2
    THEN << B64Char(bs[1] \div 4), B64Char((bs[1] % 4) * 16 + (bs[2] \div 16)),
            B64Char((bs[2] % 16) * 4), 61 >>
    ELSE << B64Char(bs[1] \div 4), B64Char((bs[1] % 4) * 16 + (bs[2] \div 16)),
            B64Char((bs[2] % 16) * 4 + (bs[3] \div 64)), B64Char(bs[3] % 64) >>
         \o b64encode(SubSeq(bs, 4, Len(bs)))

\* to_base64: base64.b64encode(file bytes).decode('utf-8')
to_base64(file) == b64encode(file.data)

HexChar(d) == IF d < 10 THEN 48 + d ELSE 97 + (d - 10)

RECURSIVE SumSeq(_)
SumSeq(bs) == IF bs = <<>> THEN 0 ELSE Head(bs) + SumSeq(Tail(bs))

\* to_md5: hashlib.md5(content.encode('utf-8')).hexdigest().  MD5 itself is
\* not computed: the digest is stood for by 32 hexadecimal digits that the
\* content determines.
to_md5(content) ==
    LET bs == encode_utf8(content)
    IN  [i \in 1..32 |-> HexChar((SumSeq(bs) + i * Len(bs)) % 16)]

\* The poster block: 0x8A 0x01 <base64> 0x92 0x01 <md5>.
PosterWritten(poster_final, poster_md5) ==
    write_string(write_byte(write_byte(
        write_string(write_byte(write_byte(<<>>, 138), 1), poster_final),
        146), 1), poster_md5)
PosterEncoded(poster_final) == PosterWritten(poster_final, to_md5(poster_final))
PosterBlock(poster) == PosterEncoded(to_base64(poster))

\* The backdrop group: 0x0A <base64> 0x12 <md5> 0x18 <time>, behind its length.
FanartGroup(fanart_final, fanart_md5, now) ==
    write_int(write_byte(
        write_string(write_byte(
            write_string(write_byte(<<>>, 10), fanart_final),
            18), fanart_md5),
        24), now)
FanartPrefixed(group) == write_int(<<>>, Len(group)) \o group
FanartEncoded(fanart_final, now) ==
    FanartPrefixed(FanartGroup(fanart_final, to_md5(fanart_final), now))
FanartBlock(fanart, now) == FanartEncoded(to_base64(fanart), now)

\* build_vsmeta_content: 0x08 0x01, 0x12 and the title, then the poster
\* block and the backdrop group of the images that exist.
build_vsmeta_content(metadata, poster, fanart, now) ==
    write_string(write_byte(write_byte(write_byte(<<>>, 8), 1), 18), metadata.title)
        \o (IF poster.exists THEN PosterBlock(poster) ELSE <<>>)
        \o (IF fanart.exists THEN FanartBlock(fanart, now) ELSE <<>>)

-----------------------------------------------------------------------------
(* Reading a little-endian base-128 varint, as a consumer of the format    *)
(* does: used to state what write_int is required to produce.              *)

RECURSIVE VarintValue(_)
VarintValue(bs) ==
    IF bs = <<>> THEN 0 ELSE (Head(bs) % 128) + 128 * VarintValue(Tail(bs))

VarintWellFormed(bs) ==
    /\ Len(bs) >= 1
    /\ \A i \in 1..Len(bs) : bs[i] \in 0..255
    /\ \A i \in 1..(Len(bs) - 1) : bs[i] >= 128
    /\ bs[Len(bs)] < 128

-----------------------------------------------------------------------------
(* Specification SpecCodec: one call of write_int or write_string.         *)

CodecTexts ==
    { Repeat(97, n) : n \in 0..MaxStrLen } \cup { <<233>>, <<70, 111, 111>>, <<31034, 20363>> }

CodecIdle ==
    /\ c_op = "none" /\ c_arg = 0 /\ c_pre = <<>> /\ c_ba = <<>> /\ c_pc = "idle"

NfoIdle ==
    /\ n_doc = [wellformed |-> FALSE, root |-> <<>>]
    /\ n_tool = "none" /\ n_env = <<>> /\ n_meta = PyNone
    /\ n_result = [status |-> "none", err |-> ""] /\ n_file = NoFile /\ n_pc = "idle"

ScanIdle ==
    /\ s_tool = "none" /\ s_delete = FALSE /\ s_nfo = <<>> /\ s_out = <<>>
    /\ s_clock = 0 /\ s_cache = <<>> /\ s_queue = <<>> /\ s_run = 0 /\ s_log = <<>>
    /\ s_changes = 0 /\ s_call = <<>> /\ s_pc = "off"

ProcIdle ==
    /\ p_cfg = <<>> /\ p_files = {} /\ p_tasks = <<>> /\ p_log = <<>> /\ p_saved = <<>>
    /\ p_run = 0 /\ p_writes = {} /\ p_faulted = FALSE /\ p_pc = "off"

CodecInit ==
    /\ c_pc = "call"
    /\ c_pre \in { <<>>, <<18>> }
    /\ c_ba = c_pre
    /\ \/ c_op = "write_int" /\ c_arg \in 0..MaxVarint
       \/ c_op = "write_string" /\ c_arg \in CodecTexts
    /\ NfoIdle /\ ScanIdle /\ ProcIdle

WriteInt ==
    /\ c_pc = "call" /\ c_op = "write_int"
    /\ c_ba' = write_int(c_ba, c_arg)
    /\ c_pc' = "done"
    /\ UNCHANGED <<c_op, c_arg, c_pre>>
    /\ UNCHANGED <<nfoVars, scanVars, procVars>>

WriteString ==
    /\ c_pc = "call" /\ c_op = "write_string"
    /\ c_ba' = write_string(c_ba, c_arg)
    /\ c_pc' = "done"
    /\ UNCHANGED <<c_op, c_arg, c_pre>>
    /\ UNCHANGED <<nfoVars, scanVars, procVars>>

CodecNext == WriteInt \/ WriteString

vars == <<codecVars, nfoVars, scanVars, procVars>>

SpecCodec == CodecInit /\ [][CodecNext]_vars

\* What the call appended to the bytearray.
Emitted == SubSeq(c_ba, Len(c_pre) + 1, Len(c_ba))

-----------------------------------------------------------------------------
(* Specification SpecNfo: one NFO document converted once by one of the    *)
(* three converters, the output path empty beforehand and the disk         *)
(* accepting the write.                                                    *)

TFoo == <<70, 111, 111>>        \* "Foo"

\* The single-valued elements a document may hold, each at most once:
\* absent, or one of the listed elements.
TitleOpts == { <<>>, <<Elem("title", TFoo)>> }
PlotOpts == { <<>>, <<Elem("plot", <<80>>)>> }
YearOpts ==
    { <<>>, <<Elem("year", <<50, 48, 50, 48>>)>>,       \* 2020
            <<Elem("year", <<45, 53>>)>> }               \* -5
RatingOpts ==
    { <<>>, <<Elem("rating", <<52, 46, 53>>)>>,          \* 4.5
            <<Elem("rating", <<56>>)>>,                  \* 8
            <<Elem("rating", <<45, 49>>)>>,              \* -1
            <<Elem("rating", <<49, 49>>)>> }             \* 11
RuntimeOpts == { <<>>, <<Elem("runtime", <<57, 48>>)>> } \* 90

\* The repeated element kinds, grouped by tag.
ElemKinds ==
    << Elem("genre", <<103, 49>>),              \* g1
       Elem("genre", <<103, 50>>),              \* g2
       Elem("director", <<100, 49>>),           \* d1
       Elem("studio", <<115, 49>>),             \* s1
       ActorElem(<< <<97, 49>> >>),             \* <actor><name>a1</name></actor>
       ActorElem(<< <<97, 50>> >>) >>           \* <actor><name>a2</name></actor>

\* The first kind with the tag of kind i.
GroupStart(i) ==
    CHOOSE j \in 1..i :
        /\ ElemKinds[j].tag = ElemKinds[i].tag
        /\ \A k \in 1..(j - 1) : ElemKinds[k].tag # ElemKinds[i].tag

\* The sequences of at most n repeated elements that come grouped by tag,
\* in the order of ElemKinds (no converter looks at the order of elements
\* of different tags); within a tag, every order and every repetition.
RECURSIVE ChildSeqs(_, _)
ChildSeqs(n, lo) ==
    IF n = 0 THEN { <<>> }
    ELSE { <<>> } \cup
         UNION { { <<ElemKinds[i]>> \o d : d \in ChildSeqs(n - 1, GroupStart(i)) }
                 : i \in lo..Len(ElemKinds) }

MalformedDoc == [wellformed |-> FALSE, root |-> <<>>]

PosterFiles == { NoFile, File(<<255, 216, 255, 224>>) }
FanartFiles == { NoFile, File(<<137, 80>>) }
\* Values of int(time.time()), read only when the backdrop exists.
Times == { 128, 1700000000 }

NfoInit ==
    /\ \/ n_doc = MalformedDoc
       \/ \E t \in TitleOpts, p \in PlotOpts, y \in YearOpts, r \in RatingOpts,
             rt \in RuntimeOpts, l \in ChildSeqs(MaxRepeat, 1) :
             n_doc = [wellformed |-> TRUE, root |-> t \o p \o y \o r \o rt \o l]
    /\ n_tool = "none" /\ n_env = <<>> /\ n_meta = PyNone
    /\ n_result = [status |-> "none", err |-> ""] /\ n_file = NoFile /\ n_pc = "ready"
    /\ CodecIdle /\ ScanIdle /\ ProcIdle

Done(status, err) == [status |-> status, err |-> err]

\* How a conversion ends, meta the parse step's result and data the encode
\* step's: an exception of either is caught and reported and the file left
\* as it was; else the bytes are written.  [meta, result, file]
Outcome(meta, data, file) ==
    IF ~meta.ok THEN [meta |-> meta, result |-> Done("failed", meta.err), file |-> file]
    ELSE IF ~data.ok THEN [meta |-> meta, result |-> Done("failed", data.err), file |-> file]
    ELSE [meta |-> meta, result |-> Done("ok", ""), file |-> File(data.v)]

\* The encode step, run only when the parse step returned.
SynoEncode(meta) == IF meta.ok THEN SynoGenerateVsmeta(meta.v) ELSE meta
Dsm7Encode(meta) == IF meta.ok THEN Dsm7GenerateVsmeta(meta.v) ELSE meta

SynoTryParsed(meta, file) == Outcome(meta, SynoEncode(meta), file)
\* The try block of convert_nfo: parse, generate, write.
SynoTry(doc, file) == SynoTryParsed(SynoParseNfo(doc), file)

Dsm7ConvertParsed(meta, file) == Outcome(meta, Dsm7Encode(meta), file)
\* DSM7Converter.convert of an .nfo path: parse, generate, write.
Dsm7ConvertFile(doc, poster, backdrop, file) ==
    Dsm7ConvertParsed(Dsm7ParseNfo(doc, poster, backdrop), file)

CreateVsmetaBuilt(metadata, poster, fanart, now) ==
    [ meta |-> Ok(metadata),
      result |-> Done("ok", ""),
      file |-> File(build_vsmeta_content(metadata, poster, fanart, now)) ]
\* create_vsmeta as process_files calls it: xmldom.parse (its exception
\* reaches the caller's except), extract, build, write.
CreateVsmetaFile(doc, poster, fanart, now, file) ==
    IF ~doc.wellformed
    THEN [meta |-> Err("ExpatError"), result |-> Done("failed", "ExpatError"), file |-> file]
    ELSE CreateVsmetaBuilt(extract_metadata(doc.root), poster, fanart, now)

\* The conversion by tool ended as r = [meta, result, file].
NfoDone(tool, env, r) ==
    /\ n_meta' = r.meta
    /\ n_result' = r.result
    /\ n_file' = r.file
    /\ n_tool' = tool
    /\ n_env' = env
    /\ n_pc' = "done"
    /\ UNCHANGED n_doc
    /\ UNCHANGED <<codecVars, scanVars, procVars>>

SynoConvertNfo ==
    /\ n_pc = "ready"
    /\ NfoDone("syno", <<>>, SynoTry(n_doc, n_file))

Dsm7Convert ==
    /\ n_pc = "ready"
    /\ \E poster \in BOOLEAN, backdrop \in BOOLEAN :
         NfoDone("dsm7", <<poster, backdrop>>,
                 Dsm7ConvertFile(n_doc, poster, backdrop, n_file))

CreateVsmeta ==
    /\ n_pc = "ready"
    /\ \E poster \in PosterFiles, fanart \in FanartFiles :
         \E now \in (IF fanart.exists THEN Times ELSE {0}) :
         NfoDone("v11", <<poster, fanart, now>>,
                 CreateVsmetaFile(n_doc, poster, fanart, now, n_file))

NfoNext == SynoConvertNfo \/ Dsm7Convert \/ CreateVsmeta

SpecNfo == NfoInit /\ [][NfoNext]_vars

-----------------------------------------------------------------------------
(* Scans of a tree by the two sequential scripts: scan_and_convert /       *)
(* convert_nfo of SynoMetaConverter (walks the .nfo files, staleness by    *)
(* modification time) and process_files of v1.1 (walks the videos,         *)
(* staleness by the output's existence).  One directory holds the files    *)
(* <base>.nfo and the output of each.  A conversion is two steps, up to    *)
(* the open of the output and the write with what follows it; between two  *)
(* conversions a user may edit or delete an .nfo or delete an output.      *)

\* The base names, in the order os.walk yields them.
ScanOrder == <<"a", "b">>
ScanPaths == { ScanOrder[i] : i \in 1..Len(ScanOrder) }

WellFormed(children) == [wellformed |-> TRUE, root |-> children]
\* Foo / 2020 / 8 / 90 min: the document SynoMetaConverter converts.
DocFoo == WellFormed(<<Elem("title", TFoo), Elem("year", <<50, 48, 50, 48>>),
                       Elem("rating", <<56>>), Elem("runtime", <<57, 48>>)>>)
\* The same with another year.
DocFoo21 == WellFormed(<<Elem("title", TFoo), Elem("year", <<50, 48, 50, 49>>),
                         Elem("rating", <<56>>), Elem("runtime", <<57, 48>>)>>)
\* Foo / 2020 / 4.5: SynoMetaConverter fails on it.
DocFoo45 == WellFormed(<<Elem("title", TFoo), Elem("year", <<50, 48, 50, 48>>),
                         Elem("rating", <<52, 46, 53>>)>>)
ScanDocs == { DocFoo, DocFoo21, DocFoo45 }

NoNfo == [exists |-> FALSE, doc |-> MalformedDoc, mtime |-> 0]
\* src, not a part of the file: the document the bytes were made from.
\* complete is FALSE for a file that was opened for writing and does not
\* hold the whole of the bytes yet.
NoOut == [exists |-> FALSE, data |-> <<>>, mtime |-> 0, src |-> MalformedDoc,
          complete |-> TRUE]
AsFile(o) == [exists |-> o.exists, data |-> o.data]

\* A staleness check that trusts a missing output to be up to date.
SkipWhenAbsent(nfo, out) ==
    IF ~out.exists THEN TRUE
    ELSE nfo.mtime <= out.mtime

\* SynoMetaConverter._check_cache: TRUE when the file is to be skipped.
check_cache(nfo, out) ==
    IF ~out.exists THEN FALSE
    ELSE nfo.mtime <= out.mtime

\* open(vsmeta_path, 'wb'): the file is there and empty.
Truncated(nfo, clock) ==
    [exists |-> TRUE, data |-> <<>>, mtime |-> clock, src |-> nfo.doc, complete |-> FALSE]
\* The file after a write of the first k bytes of data.
Written(out, data, k, clock) ==
    [out EXCEPT !.data = SubSeq(data, 1, k), !.mtime = clock, !.complete = (k = Len(data))]

\* The report of a visit.  absent and changed record what held at the
\* staleness check: the output was missing; the output was there but made
\* from another content of the .nfo than the present one.  changes is the
\* number of changes users had made by then, broke tells that the write of
\* the output broke off after the open.
Entry(p, outcome, nfo, out0, out) ==
    [ run |-> s_run, path |-> p, outcome |-> outcome,
      absent |-> ~out.exists,
      changed |-> nfo.exists /\ out0.exists /\ out0.src # nfo.doc,
      changes |-> s_changes, broke |-> FALSE ]

ScanInit ==
    /\ s_tool \in {"syno", "v11"}
    /\ s_delete \in (IF s_tool = "v11" THEN BOOLEAN ELSE {FALSE})
    /\ \E doc \in ScanDocs :
         \E orphan \in (IF s_tool = "v11" THEN SUBSET {"b"} ELSE {{}}) :
            s_nfo = [p \in ScanPaths |->
                        IF p \in orphan THEN NoNfo
                        ELSE [exists |-> TRUE, mtime |-> 0,
                              doc |-> IF p = "a" THEN doc ELSE DocFoo]]
    /\ s_out = [p \in ScanPaths |-> NoOut]
    /\ s_clock = 0
    /\ s_cache \in (IF s_tool = "syno" THEN { <<>>, <<"a">> } ELSE { <<>> })
    /\ s_queue = <<>> /\ s_run = 0 /\ s_log = <<>> /\ s_changes = 0
    /\ s_call = <<>> /\ s_pc = "idle"
    /\ CodecIdle /\ NfoIdle /\ ProcIdle

\* scan_and_convert / process_files up to the first file: the walk lists
\* the directory (SynoMetaConverter keeps the names ending in .nfo).
ScanStart ==
    /\ s_pc \in {"idle", "aborted"} /\ s_run < MaxRuns
    /\ s_run' = s_run + 1
    /\ s_queue' = SelectSeq(ScanOrder, LAMBDA p : s_tool = "v11" \/ s_nfo[p].exists)
    /\ s_pc' = "scan"
    /\ UNCHANGED <<s_tool, s_delete, s_nfo, s_out, s_clock, s_cache, s_log, s_changes,
                   s_call>>
    /\ UNCHANGED <<codecVars, nfoVars, procVars>>

\* The visit of file p ended with the output out, the cache and an entry.
Visited(p, out, cache, entry) ==
    /\ s_out' = [s_out EXCEPT ![p] = out]
    /\ s_cache' = cache
    /\ s_log' = Append(s_log, entry)
    /\ s_queue' = Tail(s_queue)
    /\ s_call' = <<>>
    /\ s_pc' = IF Tail(s_queue) = <<>> THEN "idle" ELSE "scan"
    /\ UNCHANGED <<s_tool, s_delete, s_nfo, s_clock, s_run, s_changes>>
    /\ UNCHANGED <<codecVars, nfoVars, procVars>>

\* The conversion of file p has made its bytes data and opened the output.
Opened(p, nfo, data, entry) ==
    /\ s_out' = [s_out EXCEPT ![p] = Truncated(nfo, s_clock)]
    /\ s_call' = [data |-> data, entry |-> entry]
    /\ s_pc' = "write"
    /\ UNCHANGED <<s_tool, s_delete, s_nfo, s_clock, s_cache, s_queue, s_run, s_log,
                   s_changes>>
    /\ UNCHANGED <<codecVars, nfoVars, procVars>>

\* An exception left the walk: the files still queued are not visited.
Aborted ==
    /\ s_pc' = "aborted"
    /\ UNCHANGED <<s_tool, s_delete, s_nfo, s_out, s_clock, s_cache, s_queue, s_run, s_log,
                   s_changes, s_call>>
    /\ UNCHANGED <<codecVars, nfoVars, procVars>>

\* The conversion of file p after its staleness check: r is the end of
\* parse and encode, [meta, result, file].
Converted(p, nfo, r, entry) ==
    IF r.result.status = "ok"
    THEN Opened(p, nfo, r.file.data, entry)
    ELSE Visited(p, s_out[p], s_cache, [entry EXCEPT !.outcome = "failed"])

\* convert_nfo of an .nfo file that is gone since the walk listed it:
\* with no output _check_cache returns False and the parse raises inside
\* the try; with an output os.path.getmtime(nfo_path) raises outside it.
SynoVanished(p, nfo, out) ==
    IF ~out.exists
    THEN Visited(p, out, s_cache, Entry(p, "failed", nfo, out, out))
    ELSE Aborted

SynoVisit(p, nfo, out, r) ==
    IF ~nfo.exists THEN SynoVanished(p, nfo, out)
    ELSE IF check_cache(nfo, out)
    THEN Visited(p, out, s_cache, Entry(p, "skipped", nfo, out, out))
    ELSE Converted(p, nfo, r, Entry(p, "generated", nfo, out, out))

\* convert_nfo of the next .nfo file of the walk, up to the open of the
\* output.
ConvertNfo ==
    /\ s_pc = "scan" /\ s_tool = "syno" /\ s_queue # <<>>
    /\ SynoVisit(Head(s_queue), s_nfo[Head(s_queue)], s_out[Head(s_queue)],
                 SynoTry(s_nfo[Head(s_queue)].doc, AsFile(s_out[Head(s_queue)])))

\* The output after "delete the existing vsmeta" of process_files.
AfterDelete(out) == IF s_delete /\ out.exists THEN NoOut ELSE out

V11Visit(p, nfo, out0, out, r) ==
    IF nfo.exists /\ ~out.exists
    THEN Converted(p, nfo, r, Entry(p, "generated", nfo, out0, out))
    ELSE Visited(p, out, s_cache, Entry(p, "skipped", nfo, out0, out))

\* The body of the loop of process_files for the next video of the walk
\* (no poster and no fanart beside it), up to the open of the output in
\* create_vsmeta.
ProcessFile ==
    /\ s_pc = "scan" /\ s_tool = "v11" /\ s_queue # <<>>
    /\ V11Visit(Head(s_queue), s_nfo[Head(s_queue)], s_out[Head(s_queue)],
                AfterDelete(s_out[Head(s_queue)]),
                CreateVsmetaFile(s_nfo[Head(s_queue)].doc, NoFile, NoFile, 0,
                                 AsFile(AfterDelete(s_out[Head(s_queue)]))))

\* A cache that is given its line when the write broke off.
UpdateCacheOnFailure(cache, p, tool, complete) ==
    IF tool = "syno" /\ ~complete THEN Append(cache, p) ELSE cache

\* The cache file after the with-block of convert_nfo: _update_cache is
\* reached when open and write raised nothing (process_files has no cache).
update_cache(cache, p, tool, complete) ==
    IF tool = "syno" /\ complete THEN Append(cache, p) ELSE cache

\* The write of the first k bytes of the open output of file p and what
\* follows it in the handler: all the bytes, the cache line and the report
\* of success; fewer, the handler of the exception.
WriteEnds(p, k) ==
    Visited(p, Written(s_out[p], s_call.data, k, s_clock),
            update_cache(s_cache, p, s_tool, k = Len(s_call.data)),
            IF k = Len(s_call.data) THEN s_call.entry
            ELSE [s_call.entry EXCEPT !.outcome = "failed", !.broke = TRUE])

\* f.write(vsmeta_data) / op.write(buf) and the rest of the handler.
WriteVsmeta ==
    /\ s_pc = "write"
    /\ WriteEnds(Head(s_queue), Len(s_call.data))

\* The write breaks off (OSError: the disk is full, the share is gone) with
\* a half of the bytes in the file; the model lets one write of a tree
\* break.
WriteBreaks ==
    /\ s_pc = "write"
    /\ \A i \in 1..Len(s_log) : ~s_log[i].broke
    /\ WriteEnds(Head(s_queue), Len(s_call.data) \div 2)

\* A user saves another content into an .nfo file.
EditNfo ==
    /\ s_pc \in {"idle", "scan"} /\ s_changes < MaxChanges
    /\ \E p \in ScanPaths, d \in ScanDocs :
         /\ s_nfo[p].exists /\ d # s_nfo[p].doc
         /\ s_nfo' = [s_nfo EXCEPT ![p] = [exists |-> TRUE, doc |-> d, mtime |-> s_clock]]
    /\ s_changes' = s_changes + 1
    /\ UNCHANGED <<s_tool, s_delete, s_out, s_clock, s_cache, s_queue, s_run, s_log,
                   s_call, s_pc>>
    /\ UNCHANGED <<codecVars, nfoVars, procVars>>

\* A user deletes an .nfo file the running walk has listed.
DeleteNfo ==
    /\ s_pc = "scan" /\ s_changes < MaxChanges
    /\ \E p \in ScanPaths :
         /\ s_nfo[p].exists /\ \E i \in 1..Len(s_queue) : s_queue[i] = p
         /\ s_nfo' = [s_nfo EXCEPT ![p] = NoNfo]
    /\ s_changes' = s_changes + 1
    /\ UNCHANGED <<s_tool, s_delete, s_out, s_clock, s_cache, s_queue, s_run, s_log,
                   s_call, s_pc>>
    /\ UNCHANGED <<codecVars, nfoVars, procVars>>

\* A user deletes an output file.
DeleteVsmeta ==
    /\ s_pc \in {"idle", "scan"} /\ s_changes < MaxChanges
    /\ \E p \in ScanPaths :
         /\ s_out[p].exists
         /\ s_out' = [s_out EXCEPT ![p] = NoOut]
    /\ s_changes' = s_changes + 1
    /\ UNCHANGED <<s_tool, s_delete, s_nfo, s_clock, s_cache, s_queue, s_run, s_log,
                   s_call, s_pc>>
    /\ UNCHANGED <<codecVars, nfoVars, procVars>>

\* The clock moves on (between two scans: a scan is short against the
\* granularity of the modification times).
Tick ==
    /\ s_pc \in {"idle", "aborted"} /\ s_clock < MaxClock
    /\ s_clock' = s_clock + 1
    /\ UNCHANGED <<s_tool, s_delete, s_nfo, s_out, s_cache, s_queue, s_run, s_log,
                   s_changes, s_call, s_pc>>
    /\ UNCHANGED <<codecVars, nfoVars, procVars>>

ScanNext ==
    \/ ScanStart \/ ConvertNfo \/ ProcessFile \/ WriteVsmeta \/ WriteBreaks
    \/ EditNfo \/ DeleteNfo \/ DeleteVsmeta \/ Tick

SpecScan == ScanInit /\ [][ScanNext]_vars

-----------------------------------------------------------------------------
(* vsmeta_synology_1.10.py: process_all submits one process_file call per  *)
(* video of the scanned directory to a thread pool; the calls interleave   *)
(* at their file system operations.  A file is [name, video, meta,         *)
(* complete]: video is the name a video's content was first seen under     *)
(* (<<>> for a sidecar), meta the dict a .vsmeta file holds as JSON,       *)
(* complete FALSE for a file whose write broke off.                        *)

\* str.upper / str.lower (the model's names are ASCII and CJK).
upper(s) == <<>> \o [i \in 1..Len(s) |-> IF s[i] \in 97..122 THEN s[i] - 32 ELSE s[i]]
lower(s) == <<>> \o [i \in 1..Len(s) |-> IF s[i] \in 65..90 THEN s[i] + 32 ELSE s[i]]

\* sub in s
Contains(sub, s) ==
    \E i \in 0..(Len(s) - Len(sub)) : SubSeq(s, i + 1, i + Len(sub)) = sub

endswith(s, suffix) ==
    Len(suffix) <= Len(s) /\ SubSeq(s, Len(s) - Len(suffix) + 1, Len(s)) = suffix

\* The index of the dot that starts Path.suffix, 0 when there is none.
SuffixDot(name) ==
    IF \E i \in 2..(Len(name) - 1) : name[i] = 46
    THEN CHOOSE i \in 2..(Len(name) - 1) :
             name[i] = 46 /\ \A j \in (i + 1)..(Len(name) - 1) : name[j] # 46
    ELSE 0
\* Path.stem and Path.suffix
stem(name) == IF SuffixDot(name) = 0 THEN name ELSE SubSeq(name, 1, SuffixDot(name) - 1)
suffix(name) == IF SuffixDot(name) = 0 THEN <<>> ELSE SubSeq(name, SuffixDot(name), Len(name))

\* The matches of [A-Z]{2,5}-?\d{3,5} in s that start at i:
\* <<letters, dash, digits>>.
MatchesAt(s, i) ==
    { m \in (2..5) \X (0..1) \X (3..5) :
        /\ i + m[1] + m[2] + m[3] - 1 <= Len(s)
        /\ \A j \in i..(i + m[1] - 1) : s[j] \in 65..90
        /\ m[2] = 1 => s[i + m[1]] = 45
        /\ \A j \in (i + m[1] + m[2])..(i + m[1] + m[2] + m[3] - 1) : IsDigit(s[j]) }

\* The positions a match can start at (two letters, three more characters).
Starts(s) == { i \in 1..(Len(s) - 4) : s[i] \in 65..90 /\ s[i + 1] \in 65..90 }
MatchStarts(s) == { i \in Starts(s) : MatchesAt(s, i) # {} }
\* re.search takes the leftmost start ...
FirstStart(s) == CHOOSE i \in MatchStarts(s) : \A j \in MatchStarts(s) : i <= j

\* ... and there the match the greedy quantifiers find first: the most
\* letters, then the dash if it can, then the most digits.
Preferred(m, n) ==
    \/ m[1] > n[1]
    \/ m[1] = n[1] /\ m[2] > n[2]
    \/ m[1] = n[1] /\ m[2] = n[2] /\ m[3] >= n[3]
FirstMatch(ms) == CHOOSE m \in ms : \A n \in ms : Preferred(m, n)

MatchText(s, i, m) == SubSeq(s, i, i + m[1] + m[2] + m[3] - 1)
\* re.search(r"[A-Z]{2,5}-?\d{3,5}", s).group(), s having a match.
SearchId(s) == MatchText(s, FirstStart(s), FirstMatch(MatchesAt(s, FirstStart(s))))

UNKNOWN == <<85, 78, 75, 78, 79, 87, 78>>
\* vid of generate_vsmeta, from the upper-cased stem.
VidOf(s) == IF MatchStarts(s) = {} THEN UNKNOWN ELSE SearchId(s)
VideoId(name) == VidOf(upper(stem(name)))

MetaOf(vid) ==
    [ id |-> vid,
      title |-> <<31034, 20363, 26631, 39064, 95>> \o vid,
      title_ja |-> <<12469, 12531, 12503, 12523, 12479, 12452, 12488, 12523, 95>> \o vid,
      plot |-> <<26242, 26080, 21095, 24773, 20449, 24687>>,
      plot_ja |-> <<12473, 12488, 12540, 12522, 12540, 24773, 22577, 12394, 12375>>,
      actor |-> << <<28436, 21592, 65>>, <<28436, 21592, 66>> >>,
      tag |-> << <<21095, 24773>>, <<21046, 26381>> >>,
      studio |-> <<31034, 20363, 29255, 21830>>,
      date |-> <<50, 48, 50, 52, 45, 48, 49, 45, 48, 49>>,
      series |-> <<31995, 21015, 20316>> ]

generate_vsmeta(name) == MetaOf(VideoId(name))

\* A template is a sequence of literal texts and {key} fields; the
\* model's templates name text fields only.
Lit(t) == [key |-> "", lit |-> t]
Key(k) == [key |-> k, lit |-> <<>>]
TemplateIdTitle == <<Key("id"), Lit(<<95>>), Key("title")>>   \* "{id}_{title}"
TemplateName == <<Key("name")>>                               \* "{name}"
Templates == { TemplateIdTitle, TemplateName }

\* str.format(**meta)
format(template, meta) ==
    IF \E i \in 1..Len(template) :
           template[i].key # "" /\ template[i].key \notin DOMAIN meta
    THEN Err("KeyError")
    ELSE Ok(Flatten([i \in 1..Len(template) |->
                        IF template[i].key = "" THEN template[i].lit
                        ELSE meta[template[i].key]]))

\* re.sub(r'[\\/:*?"<>|]', "_", s)
sanitize(s) ==
    <<>> \o [i \in 1..Len(s) |-> IF s[i] \in {92, 47, 58, 42, 63, 34, 60, 62, 124} THEN 95 ELSE s[i]]

NewName(formatted, meta, suf) ==
    sanitize(IF formatted.ok THEN formatted.v ELSE meta.id) \o suf
generate_new_filename(template, meta, suf) == NewName(format(template, meta), meta, suf)

video_extensions ==
    { <<46, 109, 112, 52>>, <<46, 109, 107, 118>>, <<46, 97, 118, 105>>,
      <<46, 109, 111, 118>>, <<46, 119, 109, 118>> }
IsVideo(name) == \E e \in video_extensions : endswith(lower(name), e)

\* full_path.stem + ".vsmeta"
VsmetaName(name) == stem(name) \o <<46, 118, 115, 109, 101, 116, 97>>

NoMeta == MetaOf(<<>>)
VideoFile(name) == [name |-> name, video |-> name, meta |-> NoMeta, complete |-> TRUE]
VsmetaFile(name, meta, complete) ==
    [name |-> name, video |-> <<>>, meta |-> meta, complete |-> complete]

Exists(files, name) == \E f \in files : f.name = name
FileAt(files, name) == CHOOSE f \in files : f.name = name
\* open(name, 'w') and the write: the file replaces what the name held.
Put(files, f) == { g \in files : g.name # f.name } \cup { f }
\* Path.rename / os.replace of an existing src: dst is replaced silently.
Moved(files, src, dst) ==
    IF src = dst THEN files
    ELSE Put({ g \in files : g.name # src }, [FileAt(files, src) EXCEPT !.name = dst])

\* The videos a directory may hold at the start.
VideoPool ==
    { <<97, 98, 49, 50, 51, 46, 109, 112, 52>>,          \* ab123.mp4
      <<97, 98, 49, 50, 51, 46, 109, 107, 118>>,         \* ab123.mkv
      <<97, 98, 49, 50, 51, 120, 46, 109, 112, 52>>,     \* ab123x.mp4
      <<120, 46, 109, 112, 52>> }                        \* x.mp4

\* The configurations: default_config's keys that process_file reads (the
\* rename_* keys are read only with rename_video set).
Configs ==
    { c \in [ skip_existing : BOOLEAN, rename_video : BOOLEAN,
              rename_keep_original : BOOLEAN, rename_skip_well_named : BOOLEAN,
              rename_template : Templates, dry_run : BOOLEAN ] :
        ~c.rename_video =>
            /\ c.rename_keep_original /\ c.rename_skip_well_named
            /\ c.rename_template = TemplateIdTitle }

\* A sidecar an earlier tool may have left beside the first video.
OldSidecar == VsmetaFile(VsmetaName(<<97, 98, 49, 50, 51, 46, 109, 112, 52>>),
                         MetaOf(<<79, 76, 68>>), TRUE)

ProcInit ==
    /\ p_cfg \in Configs
    /\ \E names \in SUBSET VideoPool :
         /\ Cardinality(names) \in 1..MaxFiles
         /\ \E old \in SUBSET { f \in {OldSidecar} :
                                  \E n \in names : VsmetaName(n) = f.name } :
               p_files = { VideoFile(n) : n \in names } \cup old
    /\ p_tasks = <<>> /\ p_log = <<>> /\ p_saved = <<>> /\ p_run = 0
    /\ p_writes = {} /\ p_faulted = FALSE /\ p_pc = "idle"
    /\ CodecIdle /\ NfoIdle /\ ScanIdle

\* Logger.add; status "skip" | "ok" | "rename" | "fail" stand for the four
\* Chinese status words, the timestamp is left out.
LogEntry(status, path, reason) ==
    [ status |-> status, path |-> path, reason |-> reason,
      level |-> IF status = "fail" THEN "ERROR" ELSE "INFO" ]

\* The locals of a process_file call: its position, meta and new_name.
Call(pc, meta, new_name) == [pc |-> pc, meta |-> meta, new_name |-> new_name]
Returned == Call("done", NoMeta, <<>>)

\* process_all up to the end of the walk: a new Logger, one call submitted
\* per video of the directory listing.
StartRun ==
    /\ p_pc = "idle" /\ p_run < MaxRuns
    /\ p_run' = p_run + 1
    /\ p_tasks' = [n \in { f.name : f \in { g \in p_files : IsVideo(g.name) } } |->
                      Call("start", NoMeta, <<>>)]
    /\ p_log' = <<>>
    /\ p_pc' = "run"
    /\ UNCHANGED <<p_cfg, p_files, p_saved, p_writes, p_faulted>>
    /\ UNCHANGED <<codecVars, nfoVars, scanVars>>

\* The call for video n moves on to the state call, the files becoming files.
Step(n, call, files) ==
    /\ p_tasks' = [p_tasks EXCEPT ![n] = call]
    /\ p_files' = files
    /\ UNCHANGED <<p_cfg, p_saved, p_run, p_pc>>
    /\ UNCHANGED <<codecVars, nfoVars, scanVars>>

\* The call for video n returns having logged an entry.
Return(n, files, entry) ==
    /\ Step(n, Returned, files)
    /\ p_log' = Append(p_log, entry)

\* A skip test that never skips.
NeverSkip(cfg, exists) == FALSE

\* config["skip_existing"] and vsmeta_path.exists()
ShouldSkip(cfg, exists) == cfg.skip_existing /\ exists

\* process_file for video n up to the skip_existing test.
CheckOf(n) ==
    /\ p_pc = "run" /\ p_tasks[n].pc = "start"
    /\ IF ShouldSkip(p_cfg, Exists(p_files, VsmetaName(n)))
       THEN Return(n, p_files, LogEntry("skip", n, "vsmeta exists"))
       ELSE Step(n, Call("save", generate_vsmeta(n), <<>>), p_files) /\ UNCHANGED p_log
    /\ UNCHANGED <<p_writes, p_faulted>>

\* What follows save_vsmeta for video n, new_name the computed file name.
AfterSaved(n, meta, new_name, files) ==
    IF p_cfg.rename_skip_well_named /\ Contains(stem(n), new_name)
    THEN Return(n, files, LogEntry("skip", n, "well named"))
    ELSE Step(n, Call("rename", meta, new_name), files) /\ UNCHANGED p_log

AfterSave(n, meta, files) ==
    IF ~p_cfg.rename_video
    THEN Return(n, files, LogEntry("ok", n, ""))
    ELSE AfterSaved(n, meta, generate_new_filename(p_cfg.rename_template, meta, suffix(n)),
                    files)

\* A save that writes in dry-run mode too.
SaveAlways(files, f, dry_run) == Put(files, f)

\* save_vsmeta(meta, output_path, dry_run), the write going through.
save_vsmeta(files, f, dry_run) == IF dry_run THEN files ELSE Put(files, f)

WriteOf(n) ==
    [run |-> p_run, name |-> VsmetaName(n), over |-> Exists(p_files, VsmetaName(n))]

\* save_vsmeta(meta, vsmeta_path, dry_run) for video n and what follows it
\* up to the rename.  The open may fail (PermissionError), or the write
\* break off after the open (OSError); the model lets one write of a tree
\* fail.
SaveOf(n) ==
    /\ p_pc = "run" /\ p_tasks[n].pc = "save"
    /\ \/ /\ p_cfg.dry_run
          /\ AfterSave(n, p_tasks[n].meta,
                       save_vsmeta(p_files, VsmetaFile(VsmetaName(n), p_tasks[n].meta, TRUE),
                                   p_cfg.dry_run))
          /\ UNCHANGED <<p_writes, p_faulted>>
       \/ /\ ~p_cfg.dry_run
          /\ AfterSave(n, p_tasks[n].meta,
                       save_vsmeta(p_files, VsmetaFile(VsmetaName(n), p_tasks[n].meta, TRUE),
                                   p_cfg.dry_run))
          /\ p_writes' = p_writes \cup { WriteOf(n) }
          /\ UNCHANGED p_faulted
       \/ /\ ~p_cfg.dry_run /\ ~p_faulted
          /\ Return(n, p_files, LogEntry("fail", n, "permission"))
          /\ p_faulted' = TRUE
          /\ UNCHANGED p_writes
       \/ /\ ~p_cfg.dry_run /\ ~p_faulted
          /\ Return(n, Put(p_files, VsmetaFile(VsmetaName(n), p_tasks[n].meta, FALSE)),
                    LogEntry("fail", n, "OSError"))
          /\ p_faulted' = TRUE
          /\ p_writes' = p_writes \cup { WriteOf(n) }

\* The rename of video n to new_name and the entry logged after it.
Renamed(n, new_name) ==
    IF p_cfg.dry_run THEN Return(n, p_files, LogEntry("rename", new_name, ""))
    ELSE IF ~Exists(p_files, n) THEN Return(n, p_files, LogEntry("fail", n, "not found"))
    ELSE Return(n, Moved(p_files, n, new_name), LogEntry("rename", new_name, ""))

\* process_file for video n from "if not dry_run" of the rename branch to
\* its end; full_path.rename and os.replace do the same.
RenameOf(n) ==
    /\ p_pc = "run" /\ p_tasks[n].pc = "rename"
    /\ Renamed(n, p_tasks[n].new_name)
    /\ UNCHANGED <<p_writes, p_faulted>>

Check == \E n \in DOMAIN p_tasks : CheckOf(n)
Save == \E n \in DOMAIN p_tasks : SaveOf(n)
Rename == \E n \in DOMAIN p_tasks : RenameOf(n)

\* The entries of a log, each with the number of times it occurs.
BagOfLog(log) ==
    [e \in { log[i] : i \in 1..Len(log) } |-> Cardinality({ i \in 1..Len(log) : log[i] = e })]

\* The executor has run every call: logger.save().
FinishRun ==
    /\ p_pc = "run" /\ \A n \in DOMAIN p_tasks : p_tasks[n].pc = "done"
    /\ p_saved' = Append(p_saved, BagOfLog(p_log))
    /\ p_pc' = "idle"
    /\ UNCHANGED <<p_cfg, p_files, p_tasks, p_log, p_run, p_writes, p_faulted>>
    /\ UNCHANGED <<codecVars, nfoVars, scanVars>>

ProcNext == StartRun \/ Check \/ Save \/ Rename \/ FinishRun

SpecProc == ProcInit /\ [][ProcNext]_vars

-----------------------------------------------------------------------------
(* C1: for every n >= 0, write_int appends the little-endian base-128      *)
(* varint of n: every byte but the last has its high bit set, the last has *)
(* it clear, and the 7-bit groups sum to n.                                *)
C1_WriteIntIsVarint ==
    (c_pc = "done" /\ c_op = "write_int") =>
        /\ IsPrefix(c_pre, c_ba)
        /\ VarintWellFormed(Emitted)
        /\ VarintValue(Emitted) = c_arg

-----------------------------------------------------------------------------
(* Reading back what the two CS converters write: after the 7-byte header, *)
(* entries of a 4-byte little-endian tag, a 4-byte little-endian length    *)
(* and that many payload bytes; SynoMetaConverter ends with the 4 bytes of *)
(* the end marker.                                                         *)

rd32(bs, at) == bs[at] + 256 * bs[at + 1] + 65536 * bs[at + 2] + 16777216 * bs[at + 3]

RECURSIVE EntriesOf(_)
EntriesOf(bs) ==
    IF Len(bs) < 8 THEN <<>>
    ELSE <<[tag |-> rd32(bs, 1), payload |-> SubSeq(bs, 9, 8 + rd32(bs, 5))]>>
             \o EntriesOf(SubSeq(bs, 9 + rd32(bs, 5), Len(bs)))

FileEntries == EntriesOf(SubSeq(n_file.data, Len(VSMETA_HEADER) + 1, Len(n_file.data)))

\* The payloads of the entries with a tag, in the order of the record.
PayloadsOf(entries, tag) ==
    LET sel == SelectSeq(entries, LAMBDA e : e.tag = tag)
    IN  [i \in 1..Len(sel) |-> sel[i].payload]

\* The texts of the document's elements of a repeated kind, in document
\* order (an actor's text is its name).
DocTexts(doc, tag) ==
    LET sel == findall(doc.root, tag)
    IN  [i \in 1..Len(sel) |->
            IF tag = "actor" THEN findtext(SubElems(sel[i]), "name", <<>>) ELSE sel[i].text]

Utf16Each(texts) == [i \in 1..Len(texts) |-> encode_utf16le(strip(texts[i]))]

HasElem(doc, tag) == doc.wellformed /\ findall(doc.root, tag) # <<>>
\* The source's year, and its rating in halves.
SourceYear(doc) == py_int(findtext(doc.root, "year", <<48>>)).v.v
SourceRating(doc) == py_float(findtext(doc.root, "rating", <<48>>)).v.v

CsTools == {"syno", "dsm7"}

-----------------------------------------------------------------------------
C2_Expected(doc) ==
    << [tag |-> 1, payload |-> encode_utf16le(strip(findtext(doc.root, "title", <<>>)))],
       [tag |-> 4, payload |-> le32(SourceYear(doc))],
       [tag |-> 5, payload |-> pack_f(PyFloat(IF 2 * SourceRating(doc) > 20 THEN 20
                                               ELSE 2 * SourceRating(doc)))] >>

C2_InOrder(entries, want) ==
    \E i, j, k \in 1..Len(entries) :
        i < j /\ j < k /\ entries[i] = want[1] /\ entries[j] = want[2] /\ entries[k] = want[3]

(* C2: converting a well-formed NFO with a non-empty title, a year and a   *)
(* rating succeeds, and the file holds, after the magic header and in this *)
(* order, an entry tagged 0x01 with the title, an entry tagged 0x04 with   *)
(* the year as a 4-byte little-endian integer and an entry tagged 0x05     *)
(* with the normalized rating (9.0 for 4.5) as a 4-byte float.             *)
C2_TitleYearRatingConverted ==
    ( /\ n_pc = "done" /\ n_tool \in CsTools
      /\ HasElem(n_doc, "title") /\ HasElem(n_doc, "year") /\ HasElem(n_doc, "rating")
      /\ SourceYear(n_doc) >= 0
      /\ SourceRating(n_doc) >= 0 /\ SourceRating(n_doc) <= 20 )
    => /\ n_result.status = "ok"
       /\ n_file.exists
       /\ IsPrefix(VSMETA_HEADER, n_file.data)
       /\ C2_InOrder(FileEntries, C2_Expected(n_doc))

-----------------------------------------------------------------------------
(* C3: every output file written by any conversion path starts with the   *)
(* same fixed 7-byte magic header, whatever fields and images are present. *)
C3_SameMagicEverywhere ==
    n_file.exists => IsPrefix(VSMETA_HEADER, n_file.data)

-----------------------------------------------------------------------------
(* C4: parsing a well-formed NFO in which any subset of the elements is    *)
(* absent never fails (every element the model's documents do hold has a   *)
(* valid text).                                                            *)
C4_AbsentElementsNeverFail ==
    (n_pc = "done" /\ n_doc.wellformed) => n_meta.ok

-----------------------------------------------------------------------------
C5_Parsed == n_pc = "done" /\ n_tool \in CsTools /\ n_meta.ok /\ HasElem(n_doc, "rating")

(* C5: normalization doubles only source ratings <= 5; a source rating r   *)
(* with 5 < r <= 10 is stored unchanged.                                   *)
C5_DoublesOnlyUpToFive ==
    C5_Parsed =>
        /\ SourceRating(n_doc) <= 10 => Halves(n_meta.v.rating) = 2 * SourceRating(n_doc)
        /\ (SourceRating(n_doc) > 10 /\ SourceRating(n_doc) <= 20)
               => Halves(n_meta.v.rating) = SourceRating(n_doc)

(* C5 as amended: normalization doubles every source rating and caps the   *)
(* result at 10: r is stored as min(10, 2r), so r <= 5 is stored as 2r and *)
(* r with 5 < r <= 10 is stored as 10.                                     *)
C5_DoubledAndCapped ==
    C5_Parsed =>
        Halves(n_meta.v.rating) =
            IF 2 * SourceRating(n_doc) > 20 THEN 20 ELSE 2 * SourceRating(n_doc)

\* A source rating of 8 stored as 10.
C5_Witness ==
    /\ C5_Parsed /\ n_tool = "dsm7"
    /\ SourceRating(n_doc) = 16 /\ Halves(n_meta.v.rating) = 20

-----------------------------------------------------------------------------
(* C6: for every numeric source rating (negative ones and ones above 10    *)
(* included) the stored rating lies in [0, 10], and the stored year is     *)
(* >= 0.                                                                   *)
C6_RatingAndYearInRange ==
    (n_pc = "done" /\ n_tool \in CsTools /\ n_meta.ok) =>
        /\ Halves(n_meta.v.rating) >= 0
        /\ Halves(n_meta.v.rating) <= 20
        /\ n_meta.v.year.v >= 0

-----------------------------------------------------------------------------
(* C7: for each repeated field (actor, director, genre, studio), an NFO    *)
(* with n elements of the kind gives exactly n entries with the field's    *)
(* tag in the encoded record, in document order, none dropped.             *)
C7_OneEntryPerElement ==
    (n_pc = "done" /\ n_tool = "syno" /\ n_result.status = "ok") =>
        \A kind \in {"actor", "director", "genre", "studio"} :
            PayloadsOf(FileEntries, FIELD_TAGS[kind]) = Utf16Each(DocTexts(n_doc, kind))

-----------------------------------------------------------------------------
\* The .vsmeta files run number r wrote, and the number of entries of its log.
RunWrites(r) == { w \in p_writes : w.run = r }
RECURSIVE SumOver(_, _)
SumOver(bag, es) ==
    IF es = {} THEN 0
    ELSE bag[CHOOSE e \in es : TRUE] + SumOver(bag, es \ { CHOOSE e \in es : TRUE })
Entries(r) == SumOver(p_saved[r], DOMAIN p_saved[r])
Videos == { f \in p_files : IsVideo(f.name) }

-----------------------------------------------------------------------------
\* The entries scan number r logged.
RunEntries(r) == SelectSeq(s_log, LAMBDA e : e.run = r)
EntrySet(r) == { RunEntries(r)[i] : i \in 1..Len(RunEntries(r)) }
\* Scan number r is over.
ScanOver(r) == r >= 1 /\ (s_run > r \/ (s_run = r /\ s_pc = "idle"))

(* C9: if, after a successful run, the content of exactly one source file  *)
(* is changed, the next run reconverts that file and no other: whenever a  *)
(* scan that generated every output is followed by a scan that finds every *)
(* output in place and exactly one of them made from a content its .nfo    *)
(* no longer has, the second scan generates that file's output and skips   *)
(* every other file.                                                       *)
C9_OnlyEditedReconverted ==
    \A r \in 2..MaxRuns :
        ( /\ ScanOver(r)
          /\ \A e \in EntrySet(r - 1) : e.outcome = "generated"
          /\ Cardinality(EntrySet(r - 1)) = Cardinality(ScanPaths)
          /\ Cardinality({ e \in EntrySet(r) : e.changed }) = 1
          /\ \A e \in EntrySet(r) : s_nfo[e.path].exists /\ (s_delete \/ ~e.absent) )
        => \A e \in EntrySet(r) :
               e.outcome = (IF e.changed THEN "generated" ELSE "skipped")

-----------------------------------------------------------------------------
(* C10: whenever the output of a source is absent at the staleness check,  *)
(* the source is treated as stale and the conversion is run on it in that  *)
(* scan, whatever the cache file records: no visit that found the output   *)
(* missing is reported as skipped, and a visit that found it missing and   *)
(* ended without an error left the output written from the present content *)
(* of the .nfo (as long as no user has touched the tree since).            *)
C10_AbsentOutputIsStale ==
    \A i \in 1..Len(s_log) :
        (s_log[i].absent /\ s_nfo[s_log[i].path].exists) =>
            /\ s_log[i].outcome \in {"generated", "failed"}
            /\ ( /\ i = Len(s_log) /\ s_log[i].outcome = "generated"
                 /\ s_log[i].changes = s_changes )
               => /\ s_out[s_log[i].path].exists
                  /\ s_out[s_log[i].path].src = s_nfo[s_log[i].path].doc

\* SynoMetaConverter found the output of a file its cache lists missing,
\* and generated it again.
C10_Witness ==
    /\ s_tool = "syno" /\ s_log # <<>>
    /\ s_log[Len(s_log)].absent /\ s_log[Len(s_log)].outcome = "generated"
    /\ s_log[Len(s_log)].run = 2
    /\ \E i \in 1..Len(s_cache) : s_cache[i] = s_log[Len(s_log)].path
    /\ s_log[Len(s_log)].changes = s_changes
    /\ s_out[s_log[Len(s_log)].path].exists

-----------------------------------------------------------------------------
(* C11: at every moment of a conversion, a write that broke off included,  *)
(* the output path holds no file or a complete output: never a file that   *)
(* was opened and does not hold all of its bytes.                          *)
C11_NoPartialOutput ==
    \A p \in DOMAIN s_out : s_out[p].exists => s_out[p].complete

-----------------------------------------------------------------------------
(* C12: when a conversion failed after the write of its output had begun,  *)
(* the next scan attempts the source again: it does not skip the file on   *)
(* account of what the failed attempt left at the output path (no user     *)
(* having touched the tree in between).                                    *)
C12_FailedWriteRetried ==
    \A i, j \in 1..Len(s_log) :
        ( /\ s_log[i].broke
          /\ s_log[j].path = s_log[i].path
          /\ s_log[j].run = s_log[i].run + 1
          /\ s_log[j].changes = s_log[i].changes )
        => s_log[j].outcome # "skipped"

-----------------------------------------------------------------------------
(* C13: an error raised while one file is handled (the staleness check     *)
(* included) is confined to that file: the scan goes on to the other       *)
(* files and ends normally, never with an exception that leaves the walk.  *)
C13_ErrorsConfined ==
    s_pc # "aborted"

-----------------------------------------------------------------------------
(* C17: after any sequence of scans and reconversions the cache file holds *)
(* at most one line for each source path.                                  *)
C17_OneCacheLinePerPath ==
    \A i, j \in 1..Len(s_cache) : s_cache[i] = s_cache[j] => i = j

-----------------------------------------------------------------------------
(* C18: the cache file gets a line for a source only in the step that      *)
(* completes the write of that source's output in the same conversion and  *)
(* reports it generated; so a conversion that fails in parse, encode or    *)
(* write and a conversion that is skipped add no line.                     *)
C18_CacheOnlyAfterWrite ==
    [][ s_cache' # s_cache =>
          /\ s_pc = "write"
          /\ s_cache' = Append(s_cache, Head(s_queue))
          /\ s_out'[Head(s_queue)].exists /\ s_out'[Head(s_queue)].complete
          /\ s_out'[Head(s_queue)].data = s_call.data
          /\ Len(s_log') = Len(s_log) + 1
          /\ s_log'[Len(s_log')].path = Head(s_queue)
          /\ s_log'[Len(s_log')].outcome = "generated" ]_vars

\* SynoMetaConverter has skipped a file, failed to parse one, had the write
\* of one break off and generated one output, and the cache holds the one
\* line of the last.
C18_Witness ==
    /\ s_tool = "syno" /\ Len(s_cache) = 1
    /\ \E i \in 1..Len(s_log) : s_log[i].broke
    /\ \E i \in 1..Len(s_log) : s_log[i].outcome = "skipped"
    /\ \E i \in 1..Len(s_log) : s_log[i].outcome = "failed" /\ ~s_log[i].broke
    /\ \E i \in 1..Len(s_log) :
          /\ s_log[i].outcome = "generated" /\ s_cache[1] = s_log[i].path
          /\ s_out[s_log[i].path].complete

-----------------------------------------------------------------------------
\* The run that was started last is over and its log is saved.
RunOver == p_pc = "idle" /\ p_run >= 1 /\ Len(p_saved) = p_run
\* The number of lines the saved log of run r holds for path n.
LinesFor(r, n) == SumOver(p_saved[r], { e \in DOMAIN p_saved[r] : e.path = n })

(* C14: when a run of process_all is over, under every interleaving of its *)
(* workers, the saved log holds exactly one entry for every video path the *)
(* walk submitted (converted, skipped or failed), and no other entry.      *)
C14_OneOutcomePerPath ==
    RunOver =>
        /\ \A n \in DOMAIN p_tasks : LinesFor(p_run, n) = 1
        /\ Entries(p_run) = Cardinality(DOMAIN p_tasks)

-----------------------------------------------------------------------------
(* C15: in dry-run mode no step of a run creates, overwrites, renames or   *)
(* deletes a file: the files of the directory and their contents stay what *)
(* they were, for every configuration and interleaving.                    *)
C15_DryRunChangesNothing ==
    [][ p_cfg.dry_run => p_files' = p_files ]_vars

\* A dry run over two videos, one of them beside an old sidecar, with
\* skip_existing off and rename_video on, is over: it logged two renames
\* and the files are the two videos and the old sidecar.
C15_Witness ==
    /\ RunOver /\ p_cfg.dry_run /\ ~p_cfg.skip_existing /\ p_cfg.rename_video
    /\ Entries(p_run) = 2 /\ \A e \in DOMAIN p_saved[p_run] : e.status = "rename"
    /\ Cardinality(DOMAIN p_tasks) = 2
    /\ p_files = { VideoFile(n) : n \in DOMAIN p_tasks } \cup { OldSidecar }

-----------------------------------------------------------------------------
(* C16: with rename_video and rename_keep_original set, a rename keeps the *)
(* original: a video that now has another name than it had at the start    *)
(* still has a file at the name it had at the start.                       *)
C16_RenameKeepsOriginal ==
    (p_cfg.rename_video /\ p_cfg.rename_keep_original) =>
        \A f \in Videos : f.name # f.video => Exists(p_files, f.video)

-----------------------------------------------------------------------------
(* C19: with skip_existing set, within one run each .vsmeta path is        *)
(* written at most once and no write goes to a path that holds a file      *)
(* already, also when several videos have the same stem and their workers  *)
(* interleave between the existence check and the write.                   *)
C19_NoOverwriteWhenSkipping ==
    p_cfg.skip_existing =>
        /\ \A w \in p_writes : ~w.over
        /\ \A w1, w2 \in p_writes :
               (w1.run = w2.run /\ w1.name = w2.name) => w1 = w2

-----------------------------------------------------------------------------
(* C20: the rename step destroys no video: when a run with rename_video    *)
(* set is over, the directory holds as many videos as the walk submitted,  *)
(* and (after the first run) the content of every video it started with,   *)
(* also when two videos are given the same new name.                       *)
C20_RenameLosesNoVideo ==
    (RunOver /\ p_cfg.rename_video) =>
        /\ Cardinality(Videos) = Cardinality(DOMAIN p_tasks)
        /\ p_run = 1 => { f.video : f \in Videos } = DOMAIN p_tasks

-----------------------------------------------------------------------------
(* C21: when a run that is not a dry run is over, every video it logged as *)
(* done or renamed has a complete .vsmeta file under the stem the video    *)
(* has now: after a rename the sidecar carries the new name.               *)
C21_SidecarUnderCurrentStem ==
    (RunOver /\ ~p_cfg.dry_run) =>
        \A e \in DOMAIN p_saved[p_run] :
            (e.status \in {"ok", "rename"} /\ Exists(p_files, e.path)) =>
                /\ Exists(p_files, VsmetaName(e.path))
                /\ FileAt(p_files, VsmetaName(e.path)).complete

=============================================================================
